---- MODULE Spec2Model ----
(***************************************************************************)
(* A model of the polymarket-api order server: the three order routes      *)
(* (src/src/routes/orders.ts) and the ClobClient service with its two      *)
(* process-wide caches (src/src/services/clobClient.ts).                   *)
(*                                                                         *)
(* Node runs a handler without interruption from one await of an upstream  *)
(* call to the next, so an action is one such stretch of code: the arrival *)
(* of a request up to its first upstream call, and the continuation that   *)
(* runs when an upstream call returns or throws.  The upstream calls are   *)
(* createOrDeriveApiKey, getTickSize and createAndPostOrder of the venue   *)
(* client; their results are inputs of the model.                          *)
(*                                                                         *)
(* JavaScript values are records [t, s, n]; a string is its sequence of    *)
(* tokens, where "-" is always a token of its own, so that template        *)
(* literals are concatenations.                                            *)
(***************************************************************************)
EXTENDS Integers, Sequences, FiniteSets, TLC

VARIABLES
    env,          \* process.env: PRIVATE_KEY, FUNDER_ADDRESS
    instance,     \* ClobClient.instance
    clientCache,  \* ClobClient.clientCache: cache key -> client
    credsCache,   \* ClobClient.credsCache: cache key -> ApiKeyCreds
    requests      \* the HTTP requests: position, locals, upstream calls, response

vars == <<env, instance, clientCache, credsCache, requests>>

-----------------------------------------------------------------------------
(* Bounds *)

NumRequests == 2

Requests == 1..NumRequests

-----------------------------------------------------------------------------
(* JavaScript values *)

Undef == [t |-> "undefined", s |-> <<>>, n |-> 0]

Null == [t |-> "null", s |-> <<>>, n |-> 0]

Str(s) == [t |-> "string", s |-> s, n |-> 0]

Num(n) == [t |-> "number", s |-> <<>>, n |-> n]

Bool(b) == [t |-> "boolean", s |-> <<>>, n |-> IF b THEN 1 ELSE 0]

\* An ApiKeyCreds object returned by the venue.
Obj(s) == [t |-> "object", s |-> s, n |-> 0]

\* !v
Falsy(v) ==
    \/ v.t \in {"undefined", "null"}
    \/ v.t = "string" /\ v.s = <<>>
    \/ v.t = "number" /\ v.n = 0
    \/ v.t = "boolean" /\ v.n = 0

Truthy(v) == ~Falsy(v)

\* v === undefined || v === null
Nullish(v) == v.t \in {"undefined", "null"}

\* a ?? b
Coalesce(a, b) == IF Nullish(a) THEN b ELSE a

\* a || b
OrElse(a, b) == IF Falsy(a) THEN b ELSE a

\* s.includes(w), for a word w that is one token
Includes(s, w) == \E i \in 1..Len(s) : s[i] = w

-----------------------------------------------------------------------------
(* Errors: message, response.status and data.error of a thrown value *)

NewError(msg) == [message |-> Str(msg), status |-> 0, data |-> Undef]

UpstreamError(msg, status, data) == [message |-> msg, status |-> status, data |-> data]

NoError == [message |-> Undef, status |-> 0, data |-> Undef]


\* `${v}` in a template literal (strings, undefined and null only)
Text(v) ==
    CASE v.t = "string" -> v.s
      [] v.t = "undefined" -> <<"undefined">>
      [] v.t = "null" -> <<"null">>
      [] OTHER -> <<"[value]">>

-----------------------------------------------------------------------------
(* Clients, upstream calls, responses, requests *)

\* new PolymarketClobClient(host, chainId, signer, creds, signatureType, funderAddress);
\* id is the object's identity: the request whose call constructed it.
NewClient(id, privateKey, funderAddress, creds, cfg) ==
    [id |-> id, privateKey |-> privateKey, funderAddress |-> funderAddress,
     creds |-> creds, cfg |-> cfg]

NoClient == NewClient(0, Undef, Undef, Undef, 0)

NoArgs ==
    [signer |-> Undef, tokenID |-> Undef, price |-> Undef, size |-> Undef,
     amount |-> Undef, side |-> Undef, tickSize |-> Undef, negRisk |-> Undef,
     orderType |-> Undef, expiration |-> Undef]

Call(op, args) == [op |-> op, args |-> args]

NoResp == [status |-> 0, success |-> Undef, data |-> Undef, error |-> Undef,
           timestamp |-> Undef]

Timestamp == Str(<<"ISO8601">>)

NoCredentials == [defined |-> FALSE, privateKey |-> Undef, funderAddress |-> Undef]

NoBody ==
    [tokenID |-> Undef, price |-> Undef, side |-> Undef, size |-> Undef,
     amount |-> Undef, tickSize |-> Undef, negRisk |-> Undef, orderType |-> Undef,
     expiration |-> Undef, privateKey |-> Undef, funderAddress |-> Undef]

NewRequest ==
    [pc |-> "idle", endpoint |-> "", body |-> NoBody, cfg |-> 0,
     credentials |-> NoCredentials, privateKey |-> Undef, funderAddress |-> Undef,
     cacheKey |-> <<>>, client |-> NoClient, tickSize |-> Undef,
     calls |-> <<>>, answers |-> <<>>, resp |-> NoResp]

-----------------------------------------------------------------------------
(* The caches: Map.has, Map.get, Map.set *)

Has(cache, k) == k \in DOMAIN cache

Get(cache, k) == cache[k]

Set(cache, k, v) == [x \in DOMAIN cache \cup {k} |-> IF x = k THEN v ELSE cache[x]]

EmptyMap == [x \in {} |-> NoClient]

-----------------------------------------------------------------------------
(* routes/orders.ts: what a handler sends *)

\* res.status(400).json({ error: msg })
BadRequest(q, msg) ==
    [q EXCEPT !.pc = "done",
              !.resp = [status |-> 400, success |-> Undef, data |-> Undef,
                        error |-> Str(msg), timestamp |-> Undef]]

\* the fallback text of each handler's catch
DefaultMessage(endpoint) ==
    CASE endpoint = "limit" -> <<"Failed to create limit order">>
      [] endpoint = "market" -> <<"Failed to create market order">>
      [] OTHER -> <<"Failed to create order">>

\* a handler without its catch: the exception leaves the handler and the
\* request is never answered
RouteCatchRethrow(q, error) == [q EXCEPT !.pc = "unhandled"]

\* catch (error) { res.status(500).json({ success: false, error: error.message || ..., timestamp }) }
RouteCatch(q, error) ==
    [q EXCEPT !.pc = "done",
              !.resp = [status |-> 500, success |-> Bool(FALSE), data |-> Undef,
                        error |-> OrElse(error.message, Str(DefaultMessage(q.endpoint))),
                        timestamp |-> Timestamp]]

\* the success response without the upstream result
RouteSuccessNoData(q, response) ==
    [q EXCEPT !.pc = "done",
              !.resp = [status |-> 200, success |-> Bool(TRUE), data |-> Undef,
                        error |-> Undef, timestamp |-> Timestamp]]

\* res.json({ success: true, data: response, timestamp })
RouteSuccess(q, response) ==
    [q EXCEPT !.pc = "done",
              !.resp = [status |-> 200, success |-> Bool(TRUE), data |-> response,
                        error |-> Undef, timestamp |-> Timestamp]]

\* the pairing check with its second disjunct forgotten
PairingViolationKeyOnly(body) ==
    Truthy(body.privateKey) /\ ~Truthy(body.funderAddress)

\* "If either is provided, both must be provided"
PairingViolation(body) ==
    \/ Truthy(body.privateKey) /\ ~Truthy(body.funderAddress)
    \/ ~Truthy(body.privateKey) /\ Truthy(body.funderAddress)

PairingMessage ==
    <<"Both privateKey and funderAddress must be provided together, or neither (to use environment variables)">>

\* POST /limit with the price tested by !price: a price of 0 is refused
LimitValidationFalsyPrice(body) ==
    IF Falsy(body.tokenID) THEN <<"tokenID is required">>
    ELSE IF Falsy(body.price) THEN <<"price is required">>
    ELSE IF Falsy(body.side) THEN <<"side is required (BUY or SELL)">>
    ELSE IF Nullish(body.size) THEN <<"size is required">>
    ELSE IF PairingViolation(body) THEN PairingMessage
    ELSE <<>>

\* POST /limit and POST /: the required fields and the pairing, in the handler's
\* order; the message of the first check that fails, <<>> when all pass
LimitValidation(body) ==
    IF Falsy(body.tokenID) THEN <<"tokenID is required">>
    ELSE IF Nullish(body.price) THEN <<"price is required">>
    ELSE IF Falsy(body.side) THEN <<"side is required (BUY or SELL)">>
    ELSE IF Nullish(body.size) THEN <<"size is required">>
    ELSE IF PairingViolation(body) THEN PairingMessage
    ELSE <<>>

\* ["FOK", "FAK"].includes(orderType)
IsFokFak(orderType) == orderType \in {Str(<<"FOK">>), Str(<<"FAK">>)}

\* POST /market with the amount compared by < 0: an amount of 0 passes
MarketValidationNegativeOnly(body) ==
    IF Falsy(body.tokenID) THEN <<"tokenID is required">>
    ELSE IF Nullish(body.amount) \/ (body.amount.t = "number" /\ body.amount.n < 0)
        THEN <<"amount is required and must be greater than 0">>
    ELSE IF Falsy(body.side) THEN <<"side is required (BUY or SELL)">>
    ELSE IF Falsy(body.orderType) \/ ~IsFokFak(body.orderType)
        THEN <<"orderType is required and must be either FOK or FAK">>
    ELSE IF PairingViolation(body) THEN PairingMessage
    ELSE <<>>

\* POST /market
MarketValidation(body) ==
    IF Falsy(body.tokenID) THEN <<"tokenID is required">>
    ELSE IF Nullish(body.amount) \/ (body.amount.t = "number" /\ body.amount.n <= 0)
        THEN <<"amount is required and must be greater than 0">>
    ELSE IF Falsy(body.side) THEN <<"side is required (BUY or SELL)">>
    ELSE IF Falsy(body.orderType) \/ ~IsFokFak(body.orderType)
        THEN <<"orderType is required and must be either FOK or FAK">>
    ELSE IF PairingViolation(body) THEN PairingMessage
    ELSE <<>>

\* the legacy handler without the size check of the limit handler
ValidationLegacyNoSize(endpoint, body) ==
    IF endpoint = "market" THEN MarketValidation(body)
    ELSE IF endpoint = "legacy" /\ Truthy(body.tokenID) /\ ~Nullish(body.price)
            /\ Truthy(body.side) /\ Nullish(body.size)
    THEN <<>>
    ELSE LimitValidation(body)

Validation(endpoint, body) ==
    IF endpoint = "market" THEN MarketValidation(body) ELSE LimitValidation(body)

\* const credentials = privateKey && funderAddress ? {...} : undefined
Credentials(body) ==
    IF Truthy(body.privateKey) /\ Truthy(body.funderAddress)
    THEN [defined |-> TRUE, privateKey |-> body.privateKey,
          funderAddress |-> body.funderAddress]
    ELSE NoCredentials

\* the orderType argument each handler passes to the service
OrderTypeArg(q) ==
    IF q.endpoint = "market" THEN q.body.orderType
    ELSE OrElse(q.body.orderType, Str(<<"GTC">>))

-----------------------------------------------------------------------------
(* services/clobClient.ts: createAndPostOrder from the tick size on *)

\* the catch of createAndPostOrder testing the message before the status
OrderCatchToStringFirst(q, error) ==
    IF error.message.t = "string" /\ Includes(error.message.s, "toString")
    THEN NewError(<<"Invalid market parameters. Market may not exist or tickSize may be incorrect. Original error: ">>
                  \o error.message.s)
    ELSE IF error.status = 404
    THEN NewError(<<"Market not found for tokenID: ">> \o Text(q.body.tokenID)
                  \o <<". Please verify the tokenID is correct.">>)
    ELSE error

\* catch (error) of createAndPostOrder: the error it throws on
OrderCatch(q, error) ==
    IF error.status = 404
    THEN NewError(<<"Market not found for tokenID: ">> \o Text(q.body.tokenID)
                  \o <<". Please verify the tokenID is correct.">>)
    ELSE IF error.message.t = "string" /\ Includes(error.message.s, "toString")
    THEN NewError(<<"Invalid market parameters. Market may not exist or tickSize may be incorrect. Original error: ">>
                  \o error.message.s)
    ELSE error

FokFakMessage(orderType) ==
    <<"Order type ">> \o Text(orderType)
    \o <<" requires createAndPostMarketOrder which needs a different order structure. Please use GTC or GTD for limit orders.">>

\* orderParams.side === "BUY" ? Side.BUY : Side.SELL
SideEnum(side) == IF side = Str(<<"BUY">>) THEN Str(<<"BUY">>) ELSE Str(<<"SELL">>)

\* the order type handed on as the request gave it
OrderTypeEnumAsGiven(orderType) == orderType

\* orderType === "GTD" ? OrderType.GTD : OrderType.GTC
OrderTypeEnum(orderType) ==
    IF orderType = Str(<<"GTD">>) THEN Str(<<"GTD">>) ELSE Str(<<"GTC">>)

\* the arguments of client.createAndPostOrder with negRisk left at false
LimitPayloadNoNegRisk(q) ==
    [NoArgs EXCEPT !.tokenID = q.body.tokenID,
                   !.price = q.body.price,
                   !.side = SideEnum(q.body.side),
                   !.size = q.body.size,
                   !.tickSize = q.tickSize,
                   !.negRisk = Bool(FALSE),
                   !.orderType = OrderTypeEnum(OrderTypeArg(q))]

\* the arguments of client.createAndPostOrder
LimitPayload(q) ==
    [NoArgs EXCEPT !.tokenID = q.body.tokenID,
                   !.price = q.body.price,
                   !.side = SideEnum(q.body.side),
                   !.size = q.body.size,
                   !.tickSize = q.tickSize,
                   !.negRisk = Coalesce(Coalesce(q.body.negRisk, Bool(FALSE)), Bool(FALSE)),
                   !.orderType = OrderTypeEnum(OrderTypeArg(q))]

\* the try block without its FOK/FAK check: the order type is coerced
SubmitLimitOrderCoerced(q) ==
    [q EXCEPT !.pc = "submit",
              !.calls = Append(@, Call("createAndPostOrder", LimitPayload(q)))]

\* the try block: FOK/FAK are refused, anything else is submitted
SubmitLimitOrder(q) ==
    IF IsFokFak(OrderTypeArg(q))
    THEN RouteCatch(q, OrderCatch(q, NewError(FokFakMessage(OrderTypeArg(q)))))
    ELSE [q EXCEPT !.pc = "submit",
                   !.calls = Append(@, Call("createAndPostOrder", LimitPayload(q)))]

\* the arguments of the client's market submission
MarketPayload(q) ==
    [NoArgs EXCEPT !.tokenID = q.body.tokenID,
                   !.amount = q.body.amount,
                   !.side = SideEnum(q.body.side),
                   !.tickSize = q.tickSize,
                   !.orderType = q.body.orderType]

\* createAndPostMarketOrder, whose body is not in the sources: the Submit step
SubmitMarketOrder(q) ==
    [q EXCEPT !.pc = "submit",
              !.calls = Append(@, Call("createAndPostMarketOrder", MarketPayload(q)))]

\* the test written as tickSize === undefined: an empty string passes
TickSizeEmptyUndefinedOnly(tickSize) == tickSize = Undef

\* if (!tickSize || tickSize === "")
TickSizeEmpty(tickSize) == Falsy(tickSize) \/ tickSize = Str(<<>>)

\* from "Validate tickSize is not empty" on
AfterTickSize(q) ==
    IF TickSizeEmpty(q.tickSize)
    THEN RouteCatch(q, NewError(<<"tickSize is required but could not be determined from market">>))
    ELSE IF q.endpoint = "market" THEN SubmitMarketOrder(q)
    ELSE SubmitLimitOrder(q)

\* the catch of getMarketInfo looking at the status alone
getMarketInfoCatchStatusOnly(tokenID, error) ==
    IF error.status = 404
    THEN NewError(<<"Market not found for tokenID: ">> \o Text(tokenID)
                  \o <<". Please verify the tokenID is correct and the market exists.">>)
    ELSE error

\* the catch of getMarketInfo taking every failure for a missing market
getMarketInfoCatchAlways(tokenID, error) ==
    NewError(<<"Market not found for tokenID: ">> \o Text(tokenID)
             \o <<". Please verify the tokenID is correct and the market exists.">>)

\* catch (error) of getMarketInfo: the error it throws
getMarketInfoCatch(tokenID, error) ==
    IF \/ error.status = 404
       \/ error.data.t = "string" /\ Includes(error.data.s, "not found")
    THEN NewError(<<"Market not found for tokenID: ">> \o Text(tokenID)
                  \o <<". Please verify the tokenID is correct and the market exists.">>)
    ELSE error

\* catch (error) around getMarketInfo in createAndPostOrder
MarketInfoFailed(error) ==
    NewError(<<"Failed to get market info: ">> \o Text(error.message)
             \o <<". Please provide tickSize manually or use a valid tokenID.">>)

\* the test written as tickSize === undefined
NeedsTickSizeUndefinedOnly(marketParams) == marketParams.tickSize = Undef

\* if (!tickSize): whether the tick size is looked up
NeedsTickSize(marketParams) == Falsy(marketParams.tickSize)

\* createAndPostOrder once it holds the client: the tick size is looked up
\* (getMarketInfo awaits client.getTickSize) or taken from the request
AfterClient(q) ==
    IF NeedsTickSize(q.body)
    THEN [q EXCEPT !.pc = "tick",
                   !.calls = Append(@, Call("getTickSize",
                                            [NoArgs EXCEPT !.tokenID = q.body.tokenID]))]
    ELSE AfterTickSize([q EXCEPT !.tickSize = q.body.tickSize])

-----------------------------------------------------------------------------
(* services/clobClient.ts: the session registry *)

\* const cacheKey = `${privateKey}-${funderAddress}`
CacheKey(privateKey, funderAddress) ==
    Text(privateKey) \o <<"-">> \o Text(funderAddress)

\* what a step of a request leaves: the request and the client cache
Step(q, cache) == [q |-> q, clientCache |-> cache]

\* new Wallet(privateKey) throws for a string that is not a private key: a
\* key is hexadecimal, so a string with a '-' in it is none
WalletRejects(privateKey) == Includes(Text(privateKey), "-")

\* the request waits for tempClient.createOrDeriveApiKey()
AwaitDerivation(q) ==
    [q EXCEPT !.pc = "derive",
              !.calls = Append(@, Call("createOrDeriveApiKey",
                                       [NoArgs EXCEPT !.signer = q.privateKey]))]

\* getInstanceWithCredentials with a cache that also compares the venue
\* configuration: a cached client built for another configuration is not returned
getInstanceWithCredentialsPerConfig(r, q, privateKey, funderAddress) ==
    LET cacheKey == CacheKey(privateKey, funderAddress)
        q1 == [q EXCEPT !.privateKey = privateKey,
                        !.funderAddress = funderAddress,
                        !.cacheKey = cacheKey]
    IN  IF Has(clientCache, cacheKey) /\ Get(clientCache, cacheKey).cfg = q.cfg
        THEN Step(AfterClient([q1 EXCEPT !.client = Get(clientCache, cacheKey)]),
                  clientCache)
        ELSE IF Has(credsCache, cacheKey)
        THEN LET client == NewClient(r, privateKey, funderAddress,
                                     Get(credsCache, cacheKey), q.cfg)
             IN  Step(AfterClient([q1 EXCEPT !.client = client]),
                      Set(clientCache, cacheKey, client))
        ELSE Step(AwaitDerivation(q1), clientCache)

\* getInstanceWithCredentials up to its await, for request r in position q:
\* a cached client is returned, cached credentials are reused to construct and
\* cache a client, and otherwise the credentials are derived upstream
getInstanceWithCredentials(r, q, privateKey, funderAddress) ==
    LET cacheKey == CacheKey(privateKey, funderAddress)
        q1 == [q EXCEPT !.privateKey = privateKey,
                        !.funderAddress = funderAddress,
                        !.cacheKey = cacheKey]
    IN  IF Has(clientCache, cacheKey)
        THEN Step(AfterClient([q1 EXCEPT !.client = Get(clientCache, cacheKey)]),
                  clientCache)
        ELSE IF Falsy(privateKey)
        THEN Step(RouteCatch(q1, NewError(<<"privateKey is required">>)), clientCache)
        ELSE IF Falsy(funderAddress)
        THEN Step(RouteCatch(q1, NewError(<<"funderAddress is required">>)), clientCache)
        ELSE IF WalletRejects(privateKey)
        THEN Step(RouteCatch(q1, NewError(<<"invalid private key">>)), clientCache)
        ELSE IF Has(credsCache, cacheKey)
        THEN LET client == NewClient(r, privateKey, funderAddress,
                                     Get(credsCache, cacheKey), q.cfg)
             IN  Step(AfterClient([q1 EXCEPT !.client = client]),
                      Set(clientCache, cacheKey, client))
        ELSE Step(AwaitDerivation(q1), clientCache)

\* getInstance: the pair of the environment
getInstance(r, q) ==
    IF instance # NoClient
    THEN Step(AfterClient([q EXCEPT !.client = instance]), clientCache)
    ELSE IF Falsy(env.PRIVATE_KEY)
    THEN Step(RouteCatch(q, NewError(<<"PRIVATE_KEY environment variable is required">>)),
              clientCache)
    ELSE IF Falsy(env.FUNDER_ADDRESS)
    THEN Step(RouteCatch(q, NewError(<<"FUNDER_ADDRESS environment variable is required">>)),
              clientCache)
    ELSE getInstanceWithCredentials(r, q, env.PRIVATE_KEY, env.FUNDER_ADDRESS)

\* createAndPostOrder up to its first await: credentials ? getInstanceWithCredentials : getInstance
createAndPostOrder(r, q) ==
    IF q.credentials.defined
    THEN getInstanceWithCredentials(r, q, q.credentials.privateKey,
                                    q.credentials.funderAddress)
    ELSE getInstance(r, q)

\* createAndPostMarketOrder, whose body is not in the sources: session
\* acquisition as for a limit order
createAndPostMarketOrder(r, q) == createAndPostOrder(r, q)

\* the catch around createOrDeriveApiKey dropping the upstream message
DerivationFailedBare(error) == NewError(<<"Failed to create API key">>)

\* catch (error) around createOrDeriveApiKey
DerivationFailed(error) ==
    NewError(<<"Failed to create API key: ">>
             \o Text(OrElse(error.message, Str(<<"Unknown error">>)))
             \o <<". Please check your privateKey and ensure your wallet is properly configured.">>)

-----------------------------------------------------------------------------
(* What upstream calls answer *)

Returned(v) == [threw |-> FALSE, value |-> v, error |-> NoError]

Threw(e) == [threw |-> TRUE, value |-> Undef, error |-> e]

\* the request with the answer to its pending upstream call recorded
Answered(q, result) == [q EXCEPT !.answers = Append(@, result)]

-----------------------------------------------------------------------------
(* Actions *)

\* request r has not arrived, and the requests before it have: the requests
\* are numbered in their order of arrival
Arrives(r) ==
    /\ requests[r].pc = "idle"
    /\ \A p \in Requests : p < r => requests[p].pc # "idle"

\* a handler whose checks respond without returning: the order is created
\* whatever the checks said
HandleStepNoReturn(r, endpoint, body, cfg) ==
    LET q == [NewRequest EXCEPT !.endpoint = endpoint, !.body = body, !.cfg = cfg]
        called == [q EXCEPT !.credentials = Credentials(body)]
    IN  IF endpoint = "market" THEN createAndPostMarketOrder(r, called)
        ELSE createAndPostOrder(r, called)

\* a handler of routes/orders.ts, from the arrival of request r to its first
\* upstream call or its response: the request and the client cache it leaves
HandleStep(r, endpoint, body, cfg) ==
    LET q == [NewRequest EXCEPT !.endpoint = endpoint, !.body = body, !.cfg = cfg]
        message == Validation(endpoint, body)
        called == [q EXCEPT !.credentials = Credentials(body)]
    IN  IF message # <<>> THEN Step(BadRequest(q, message), clientCache)
        ELSE IF endpoint = "market" THEN createAndPostMarketOrder(r, called)
        ELSE createAndPostOrder(r, called)

Handle(r, endpoint, body, cfg) ==
    /\ LET step == HandleStep(r, endpoint, body, cfg)
       IN  /\ requests' = [requests EXCEPT ![r] = step.q]
           /\ clientCache' = step.clientCache
    /\ UNCHANGED <<env, instance, credsCache>>

\* router.post("/limit", ...)
PostLimit(r, body, cfg) ==
    /\ Arrives(r)
    /\ Handle(r, "limit", body, cfg)

\* router.post("/market", ...)
PostMarket(r, body, cfg) ==
    /\ Arrives(r)
    /\ Handle(r, "market", body, cfg)

\* router.post("/", ...)
PostLegacy(r, body, cfg) ==
    /\ Arrives(r)
    /\ Handle(r, "legacy", body, cfg)

\* what the continuation of a derivation leaves: the request and both caches
Registry(q, clients, creds) == [q |-> q, clientCache |-> clients, credsCache |-> creds]

\* the continuation of a derivation that keeps the session another request
\* cached meanwhile
DerivationStepFirstWins(r, q, result) ==
    IF result.threw
    THEN Registry(RouteCatch(q, DerivationFailed(result.error)), clientCache, credsCache)
    ELSE IF Falsy(result.value)
    THEN Registry(RouteCatch(q, NewError(<<"API key creation returned null/undefined">>)),
                  clientCache, Set(credsCache, q.cacheKey, result.value))
    ELSE IF Has(clientCache, q.cacheKey)
    THEN Registry(AfterClient([q EXCEPT !.client = Get(clientCache, q.cacheKey)]),
                  clientCache, credsCache)
    ELSE LET client == NewClient(r, q.privateKey, q.funderAddress, result.value, q.cfg)
         IN  Registry(AfterClient([q EXCEPT !.client = client]),
                      Set(clientCache, q.cacheKey, client),
                      Set(credsCache, q.cacheKey, result.value))

\* the continuation of a derivation that starts the caches afresh with the
\* new entry, dropping those of the other keys
DerivationStepClearing(r, q, result) ==
    IF result.threw
    THEN Registry(RouteCatch(q, DerivationFailed(result.error)), clientCache, credsCache)
    ELSE IF Falsy(result.value)
    THEN Registry(RouteCatch(q, NewError(<<"API key creation returned null/undefined">>)),
                  clientCache, Set(credsCache, q.cacheKey, result.value))
    ELSE LET client == NewClient(r, q.privateKey, q.funderAddress, result.value, q.cfg)
         IN  Registry(AfterClient([q EXCEPT !.client = client]),
                      Set(EmptyMap, q.cacheKey, client),
                      Set(EmptyMap, q.cacheKey, result.value))

\* the rest of getInstanceWithCredentials once createOrDeriveApiKey has
\* settled for request r in position q, then createAndPostOrder up to its next
\* await
DerivationStep(r, q, result) ==
    IF result.threw
    THEN Registry(RouteCatch(q, DerivationFailed(result.error)), clientCache, credsCache)
    ELSE IF Falsy(result.value)
    THEN Registry(RouteCatch(q, NewError(<<"API key creation returned null/undefined">>)),
                  clientCache, Set(credsCache, q.cacheKey, result.value))
    ELSE LET client == NewClient(r, q.privateKey, q.funderAddress, result.value, q.cfg)
         IN  Registry(AfterClient([q EXCEPT !.client = client]),
                      Set(clientCache, q.cacheKey, client),
                      Set(credsCache, q.cacheKey, result.value))

\* await tempClient.createOrDeriveApiKey() settles
DerivationSettles(r, result) ==
    LET q == Answered(requests[r], result)
        step == DerivationStep(r, q, result)
    IN  /\ q.pc = "derive"
        /\ requests' = [requests EXCEPT ![r] = step.q]
        /\ clientCache' = step.clientCache
        /\ credsCache' = step.credsCache
        /\ UNCHANGED <<env, instance>>

\* getMarketInfo asking for the tick size a second time when the first
\* lookup throws
TickSizeStepRetry(q, result) ==
    IF result.threw
    THEN IF Cardinality({i \in 1..Len(q.calls) : q.calls[i].op = "getTickSize"}) < 2
         THEN [q EXCEPT !.calls = Append(@, Call("getTickSize",
                                                 [NoArgs EXCEPT !.tokenID = q.body.tokenID]))]
         ELSE RouteCatch(q, MarketInfoFailed(getMarketInfoCatch(q.body.tokenID, result.error)))
    ELSE AfterTickSize([q EXCEPT !.tickSize = result.value])

\* the rest of getMarketInfo once getTickSize has settled, then
\* createAndPostOrder up to its next await
TickSizeStep(q, result) ==
    IF result.threw
    THEN RouteCatch(q, MarketInfoFailed(getMarketInfoCatch(q.body.tokenID, result.error)))
    ELSE AfterTickSize([q EXCEPT !.tickSize = result.value])

\* await clobClient.getTickSize(tokenID) settles
TickSizeSettles(r, result) ==
    LET q == Answered(requests[r], result) IN
    /\ q.pc = "tick"
    /\ requests' = [requests EXCEPT ![r] = TickSizeStep(q, result)]
    /\ UNCHANGED <<env, instance, clientCache, credsCache>>

\* the rest of createAndPostOrder once the submission has settled, and the
\* handler's response
SubmissionStep(q, result) ==
    IF result.threw THEN RouteCatch(q, OrderCatch(q, result.error))
    ELSE RouteSuccess(q, result.value)

\* await client.createAndPostOrder(...) settles: the handler responds
SubmissionSettles(r, result) ==
    LET q == Answered(requests[r], result) IN
    /\ q.pc = "submit"
    /\ requests' = [requests EXCEPT ![r] = SubmissionStep(q, result)]
    /\ UNCHANGED <<env, instance, clientCache, credsCache>>

-----------------------------------------------------------------------------
(* Inputs: request bodies, environments, upstream answers *)

FullEnv == [PRIVATE_KEY |-> Str(<<"envKey">>), FUNDER_ADDRESS |-> Str(<<"envFunder">>)]

NoKeyEnv == [PRIVATE_KEY |-> Undef, FUNDER_ADDRESS |-> Str(<<"envFunder">>)]

KeyA == Str(<<"keyA">>)

FunderA == Str(<<"funderA">>)

LimitBody ==
    [NoBody EXCEPT !.tokenID = Str(<<"token1">>), !.price = Num(5),
                   !.side = Str(<<"BUY">>), !.size = Num(10),
                   !.tickSize = Str(<<"0.01">>)]

MarketBody ==
    [NoBody EXCEPT !.tokenID = Str(<<"token1">>), !.amount = Num(100),
                   !.side = Str(<<"BUY">>), !.orderType = Str(<<"FOK">>),
                   !.tickSize = Str(<<"0.01">>)]

WithPair(body, privateKey, funderAddress) ==
    [body EXCEPT !.privateKey = privateKey, !.funderAddress = funderAddress]

Creds1 == Obj(<<"creds1">>)

Creds2 == Obj(<<"creds2">>)

Boom == UpstreamError(Str(<<"boom">>), 0, Undef)

Status404 == UpstreamError(Str(<<"Request failed with status code 404">>), 404, Undef)

NotFoundPayload == UpstreamError(Str(<<"bad request">>), 400, Str(<<"market ", "not found">>))

ToStringError ==
    UpstreamError(Str(<<"Cannot read properties of undefined (reading '", "toString", "')">>),
                  0, Undef)

OrderResult == Obj(<<"orderID">>)

\* the next-state relation over given sets of inputs
NextOver(limitBodies, marketBodies, legacyBodies, cfgs, derivations, tickSizes, submissions) ==
    \E r \in Requests :
        \/ \E body \in limitBodies, cfg \in cfgs : PostLimit(r, body, cfg)
        \/ \E body \in marketBodies, cfg \in cfgs : PostMarket(r, body, cfg)
        \/ \E body \in legacyBodies, cfg \in cfgs : PostLegacy(r, body, cfg)
        \/ \E result \in derivations : DerivationSettles(r, result)
        \/ \E result \in tickSizes : TickSizeSettles(r, result)
        \/ \E result \in submissions : SubmissionSettles(r, result)

InitOver(envs) ==
    /\ env \in envs
    /\ instance = NoClient
    /\ clientCache = EmptyMap
    /\ credsCache = EmptyMap
    /\ requests = [r \in Requests |-> NewRequest]

-----------------------------------------------------------------------------
(* The session registry under overlapping requests *)

RegistryLimitBodies ==
    {LimitBody, WithPair(LimitBody, KeyA, FunderA),
     [WithPair(LimitBody, KeyA, FunderA) EXCEPT !.tickSize = Undef]}

RegistryMarketBodies == {WithPair(MarketBody, KeyA, FunderA)}

RegistryLegacyBodies == {LimitBody}

RegistryCfgs == {1}

RegistryDerivations == {Returned(Creds1), Returned(Creds2), Returned(Null), Threw(Boom)}

RegistryTickSizes == {Returned(Str(<<"0.01">>)), Threw(Boom)}

RegistrySubmissions == {Returned(OrderResult), Threw(Boom)}

Init == InitOver({FullEnv})

Next ==
    NextOver(RegistryLimitBodies, RegistryMarketBodies, RegistryLegacyBodies,
             RegistryCfgs, RegistryDerivations, RegistryTickSizes, RegistrySubmissions)

Spec == Init /\ [][Next]_vars

-----------------------------------------------------------------------------
(* The session registry when the venue configuration varies between calls *)

VenueLimitBodies == {WithPair(LimitBody, KeyA, FunderA)}

VenueMarketBodies == {MarketBody}

VenueLegacyBodies == {[LimitBody EXCEPT !.tickSize = Undef]}

VenueCfgs == {1, 2}

VenueDerivations == {Returned(Creds1), Returned(Null), Threw(Boom)}

VenueTickSizes == {Returned(Str(<<"0.01">>))}

VenueSubmissions == {Returned(OrderResult)}

NextVenue ==
    NextOver(VenueLimitBodies, VenueMarketBodies, VenueLegacyBodies,
             VenueCfgs, VenueDerivations, VenueTickSizes, VenueSubmissions)

SpecVenue == Init /\ [][NextVenue]_vars

-----------------------------------------------------------------------------
(* The order routes: validation, credential pairing, tick size, order type *)

OrdersLimitBodies ==
    {LimitBody,
     [WithPair(LimitBody, KeyA, FunderA) EXCEPT !.tickSize = Undef],
     [LimitBody EXCEPT !.privateKey = KeyA],
     [LimitBody EXCEPT !.funderAddress = FunderA],
     [WithPair(LimitBody, KeyA, FunderA) EXCEPT !.orderType = Str(<<"FOK">>)],
     [LimitBody EXCEPT !.tokenID = Undef, !.privateKey = KeyA],
     [LimitBody EXCEPT !.tickSize = Str(<<>>)]}

OrdersMarketBodies == {MarketBody, [MarketBody EXCEPT !.privateKey = KeyA]}

OrdersLegacyBodies ==
    {[LimitBody EXCEPT !.tickSize = Undef, !.orderType = Str(<<"FAK">>)],
     [LimitBody EXCEPT !.funderAddress = FunderA]}

OrdersCfgs == {1}

OrdersDerivations == {Returned(Creds1), Threw(Boom)}

OrdersTickSizes ==
    {Returned(Str(<<"0.01">>)), Returned(Str(<<"0.001">>)), Returned(Str(<<>>)),
     Threw(Status404), Threw(NotFoundPayload), Threw(Boom)}

OrdersSubmissions == {Returned(OrderResult), Threw(Boom)}

InitOrders == InitOver({FullEnv, NoKeyEnv})

NextOrders ==
    NextOver(OrdersLimitBodies, OrdersMarketBodies, OrdersLegacyBodies,
             OrdersCfgs, OrdersDerivations, OrdersTickSizes, OrdersSubmissions)

SpecOrders == InitOrders /\ [][NextOrders]_vars

-----------------------------------------------------------------------------
(* Reading a request's history *)

\* the positions in the request's log of its calls of an upstream operation
CallsOf(q, op) == {i \in 1..Len(q.calls) : q.calls[i].op = op}

\* the request's session acquisition succeeded: it holds a client
Acquired(q) == q.client # NoClient

SamePair(p, q) == p.privateKey = q.privateKey /\ p.funderAddress = q.funderAddress

\* w occurs in s as a run of consecutive tokens
Contains(s, w) == \E i \in 0..(Len(s) - Len(w)) : SubSeq(s, i + 1, i + Len(w)) = w

\* the i-th upstream call of q is a credential derivation that threw or
\* returned null/undefined
DerivationFailedAt(q, i) ==
    /\ i \in 1..Len(q.answers)
    /\ q.calls[i].op = "createOrDeriveApiKey"
    /\ q.answers[i].threw \/ Falsy(q.answers[i].value)

-----------------------------------------------------------------------------
(* The claims *)

\* C1: all session acquisitions for the same credential pair that succeed
\* return the identical client object, whatever the interleaving.
C1_SameSessionForSamePair ==
    \A r1, r2 \in Requests :
        (/\ Acquired(requests[r1])
         /\ Acquired(requests[r2])
         /\ SamePair(requests[r1], requests[r2]))
        => requests[r1].client = requests[r2].client

\* C2: for every credential pair at most one createOrDeriveApiKey call is in
\* flight at any time.
C2_SingleFlightDerivation ==
    \A r1, r2 \in Requests :
        (/\ requests[r1].pc = "derive"
         /\ requests[r2].pc = "derive"
         /\ SamePair(requests[r1], requests[r2]))
        => r1 = r2

\* C3: once clientCache or credsCache holds a value for a key, the key keeps
\* that value: no step replaces it by a different one.
C3_CacheValueNeverReplaced ==
    [][/\ \A k \in DOMAIN clientCache :
            k \in DOMAIN clientCache' /\ clientCache'[k] = clientCache[k]
       /\ \A k \in DOMAIN credsCache :
            k \in DOMAIN credsCache' /\ credsCache'[k] = credsCache[k]]_vars

\* C4: when the client cache holds a client for the key of the pair a request
\* acquires a session for, the acquisition returns that client, starts no
\* credential derivation and leaves both caches as they were, also when the
\* venue configuration of the call differs from the client's.
C4_CachedSessionReturned ==
    [][\A r \in Requests :
        (/\ requests[r].pc = "idle"
         /\ requests'[r].pc # "idle"
         /\ requests'[r].cacheKey \in DOMAIN clientCache)
        => /\ requests'[r].client = clientCache[requests'[r].cacheKey]
           /\ CallsOf(requests'[r], "createOrDeriveApiKey") = {}
           /\ clientCache' = clientCache
           /\ credsCache' = credsCache]_vars

\* a request was served from the cache a client built for another venue
\* configuration, by another request, and has been answered 200
C4_Witness ==
    \E r \in Requests :
        /\ Acquired(requests[r])
        /\ requests[r].client.id # r
        /\ requests[r].client.cfg # requests[r].cfg
        /\ requests[r].resp.status = 200

\* C5: a request whose credential derivation throws, or returns
\* null/undefined, is answered with a failure that embeds the upstream message
\* when one was thrown; it holds no session and makes no further upstream call.
C5_DerivationFailureFails ==
    \A r \in Requests : \A i \in 1..Len(requests[r].answers) :
        LET q == requests[r] IN
        DerivationFailedAt(q, i)
        => /\ q.pc = "done"
           /\ q.resp.status = 500
           /\ q.resp.success = Bool(FALSE)
           /\ Truthy(q.resp.error)
           /\ ~Acquired(q)
           /\ Len(q.calls) = i
           /\ (q.answers[i].threw /\ Truthy(q.answers[i].error.message))
              => Contains(q.resp.error.s, q.answers[i].error.message.s)

\* one request's derivation threw with a message and another's returned null
C5_Witness ==
    \E r1, r2 \in Requests :
        /\ DerivationFailedAt(requests[r1], 1)
        /\ requests[r1].answers[1].threw
        /\ Truthy(requests[r1].answers[1].error.message)
        /\ DerivationFailedAt(requests[r2], 1)
        /\ ~requests[r2].answers[1].threw



\* the request gives the field (a value that is not falsy)
Supplied(v) == Truthy(v)

\* the request would pass its handler's checks if it gave no credential field
FieldsValid(q) ==
    Validation(q.endpoint, [q.body EXCEPT !.privateKey = Undef,
                                          !.funderAddress = Undef]) = <<>>

IsLimit(q) == q.endpoint \in {"limit", "legacy"}

FokOrFak(q) == q.body.orderType \in {Str(<<"FOK">>), Str(<<"FAK">>)}

\* the i-th upstream call of q is a tick-size lookup that has been answered
LookupAnsweredAt(q, i) ==
    /\ i \in 1..Len(q.answers)
    /\ q.calls[i].op = "getTickSize"

\* the error is what the venue client throws for "not found"
NotFoundSignal(error) ==
    \/ error.status = 404
    \/ error.data.t = "string" /\ Includes(error.data.s, "not found")

\* C6: on every order endpoint a request giving exactly one of
\* privateKey/funderAddress is answered 400 without any upstream call, with the
\* 'both ... must be provided together' error when its other fields are valid;
\* a valid request giving both acquires its session for that pair; a valid
\* request giving neither acquires it for the pair of the environment.
C6_CredentialPairing ==
    \A r \in Requests :
        LET q == requests[r]
            key == q.body.privateKey
            funder == q.body.funderAddress
        IN  q.pc # "idle"
            => /\ (Supplied(key) # Supplied(funder))
                  => /\ q.pc = "done"
                     /\ q.resp.status = 400
                     /\ q.calls = <<>>
                     /\ FieldsValid(q) => q.resp.error = Str(PairingMessage)
               /\ (Supplied(key) /\ Supplied(funder) /\ FieldsValid(q))
                  => /\ q.privateKey = key
                     /\ q.funderAddress = funder
                     /\ q.resp.status # 400
               /\ (~Supplied(key) /\ ~Supplied(funder) /\ FieldsValid(q))
                  => IF Truthy(env.PRIVATE_KEY) /\ Truthy(env.FUNDER_ADDRESS)
                     THEN /\ q.privateKey = env.PRIVATE_KEY
                          /\ q.funderAddress = env.FUNDER_ADDRESS
                          /\ q.resp.status # 400
                     ELSE q.resp.status = 500 /\ q.calls = <<>>

\* a request giving only funderAddress was answered 400 with the pairing error
\* and a request giving both fields holds a session for its pair
C6_Witness ==
    \E r1, r2 \in Requests :
        /\ ~Supplied(requests[r1].body.privateKey)
        /\ Supplied(requests[r1].body.funderAddress)
        /\ requests[r1].resp.status = 400
        /\ requests[r1].resp.error = Str(PairingMessage)
        /\ Supplied(requests[r2].body.privateKey)
        /\ Supplied(requests[r2].body.funderAddress)
        /\ Acquired(requests[r2])
        /\ requests[r2].client.privateKey = requests[r2].body.privateKey

\* C7: every validation failure (a missing or malformed field, a bad
\* credential pairing, a limit request whose order type is FOK/FAK) is
\* answered 400 before the request has made any upstream call.
C7_ValidationBeforeNetwork ==
    \A r \in Requests :
        LET q == requests[r] IN
        (/\ q.pc # "idle"
         /\ \/ Validation(q.endpoint, q.body) # <<>>
            \/ IsLimit(q) /\ FokOrFak(q))
        => /\ q.calls = <<>>
           /\ q.pc = "done"
           /\ q.resp.status = 400

\* C8: a limit request with order type FOK or FAK is never submitted upstream
\* and never answered 200; once its fields are valid, its session acquired and
\* its tick size resolved, it is refused with the error saying that the order
\* type requires the market-order call.
C8_FokFakRefusedOnLimit ==
    \A r \in Requests :
        LET q == requests[r] IN
        (q.pc # "idle" /\ IsLimit(q) /\ FokOrFak(q))
        => /\ CallsOf(q, "createAndPostOrder") = {}
           /\ q.pc # "submit"
           /\ q.resp.status # 200
           /\ q.resp.success # Bool(TRUE)
           /\ (Acquired(q) /\ q.pc # "tick" /\ ~TickSizeEmpty(q.tickSize))
              => /\ q.pc = "done"
                 /\ q.resp.success = Bool(FALSE)
                 /\ q.resp.error =
                        Str(<<"Order type ">> \o q.body.orderType.s
                            \o <<" requires createAndPostMarketOrder which needs a different order structure. Please use GTC or GTD for limit orders.">>)

\* a FAK limit request whose tick size was looked up has been refused with
\* the order-type error
C8_Witness ==
    \E r \in Requests :
        /\ IsLimit(requests[r])
        /\ requests[r].body.orderType = Str(<<"FAK">>)
        /\ CallsOf(requests[r], "getTickSize") # {}
        /\ requests[r].pc = "done"
        /\ Contains(requests[r].resp.error.s, <<"Order type ", "FAK">>)

\* C9: for a limit request whose tick size was looked up: every order it
\* submits carries exactly the tick size the lookup returned, and it submits
\* one when that value is not empty and its order type is not FOK/FAK; when
\* the lookup failed with status 404 or a 'not found' payload the request is
\* answered 500 with a message containing 'Market not found for tokenID:
\* <tokenID>' and submits nothing.
C9_LookedUpTickSize ==
    \A r \in Requests : \A i \in 1..Len(requests[r].answers) :
        LET q == requests[r]
            answer == q.answers[i]
            submitted == CallsOf(q, "createAndPostOrder")
        IN  (IsLimit(q) /\ LookupAnsweredAt(q, i))
            => /\ ~answer.threw
                  => /\ \A j \in submitted : q.calls[j].args.tickSize = answer.value
                     /\ (answer.value.t = "string" /\ answer.value.s # <<>> /\ ~FokOrFak(q))
                        => submitted # {}
               /\ (answer.threw /\ NotFoundSignal(answer.error))
                  => /\ q.pc = "done"
                     /\ q.resp.status = 500
                     /\ Contains(q.resp.error.s,
                                 <<"Market not found for tokenID: ">> \o q.body.tokenID.s)
                     /\ submitted = {}

\* one limit request submitted its order with the tick size its lookup
\* returned and another, whose lookup answered with a 'not found' payload, was
\* answered 500
C9_Witness ==
    \E r1, r2 \in Requests :
        /\ IsLimit(requests[r1])
        /\ LookupAnsweredAt(requests[r1], Len(requests[r1].answers))
        /\ ~requests[r1].answers[Len(requests[r1].answers)].threw
        /\ requests[r1].pc = "submit"
        /\ IsLimit(requests[r2])
        /\ LookupAnsweredAt(requests[r2], Len(requests[r2].answers))
        /\ requests[r2].answers[Len(requests[r2].answers)].error.status # 404
        /\ NotFoundSignal(requests[r2].answers[Len(requests[r2].answers)].error)
        /\ requests[r2].resp.status = 500

\* C10: a limit request looks the tick size up at most once; with a tick size
\* given it makes no lookup and submits the given value; with none (absent or
\* empty) it makes exactly one lookup once it holds a session, and an order it
\* submits carries the value its own lookup returned.
C10_LookupIffAbsent ==
    \A r \in Requests :
        LET q == requests[r]
            lookups == CallsOf(q, "getTickSize")
            submitted == CallsOf(q, "createAndPostOrder")
        IN  (q.pc # "idle" /\ IsLimit(q))
            => /\ Cardinality(lookups) <= 1
               /\ Truthy(q.body.tickSize)
                  => /\ lookups = {}
                     /\ \A j \in submitted : q.calls[j].args.tickSize = q.body.tickSize
               /\ (Falsy(q.body.tickSize) /\ Acquired(q))
                  => Cardinality(lookups) = 1
               /\ Falsy(q.body.tickSize)
                  => \A j \in submitted : \E i \in lookups :
                        /\ i < j
                        /\ ~q.answers[i].threw
                        /\ q.calls[j].args.tickSize = q.answers[i].value

\* two limit requests without tick size each looked it up, got different
\* values, and each submitted its own
C10_Witness ==
    \E r1, r2 \in Requests :
        /\ IsLimit(requests[r1]) /\ IsLimit(requests[r2])
        /\ Falsy(requests[r1].body.tickSize) /\ Falsy(requests[r2].body.tickSize)
        /\ CallsOf(requests[r1], "createAndPostOrder") # {}
        /\ CallsOf(requests[r2], "createAndPostOrder") # {}
        /\ requests[r1].tickSize # requests[r2].tickSize
        /\ requests[r1].calls[Len(requests[r1].calls)].args.tickSize = requests[r1].tickSize
        /\ requests[r2].calls[Len(requests[r2].calls)].args.tickSize = requests[r2].tickSize

\* the request has been answered
Responded(q) == q.pc = "done"

\* the upstream submission of q returned a result
SubmissionReturned(q) ==
    \E i \in 1..Len(q.answers) :
        /\ q.calls[i].op \in {"createAndPostOrder", "createAndPostMarketOrder"}
        /\ ~q.answers[i].threw

\* the request fails validation: a handler check fails, or it is a limit
\* request whose order type belongs to market orders
FailsValidation(q) ==
    \/ Validation(q.endpoint, q.body) # <<>>
    \/ IsLimit(q) /\ FokOrFak(q)

\* C11: every answered request has status 200 exactly when its upstream
\* submission returned a result, 400 exactly when the request failed
\* validation, and 500 for every other failure.
C11_StatusByOutcome ==
    \A r \in Requests :
        LET q == requests[r] IN
        Responded(q)
        => /\ q.resp.status \in {200, 400, 500}
           /\ q.resp.status = 200 <=> SubmissionReturned(q)
           /\ q.resp.status = 400 <=> FailsValidation(q)
           /\ q.resp.status = 500 <=> (~SubmissionReturned(q) /\ ~FailsValidation(q))

\* C12: every response is an envelope with a boolean success and a timestamp:
\* {success: true, data, timestamp} on success and {success: false, error,
\* timestamp} on every failure, validation included.
C12_EnvelopeOnEveryResponse ==
    \A r \in Requests :
        LET q == requests[r] IN
        Responded(q)
        => /\ q.resp.success.t = "boolean"
           /\ q.resp.timestamp.t = "string"
           /\ q.resp.status = 200 => q.resp.success = Bool(TRUE)
           /\ q.resp.status # 200
              => q.resp.success = Bool(FALSE) /\ q.resp.error.t = "string"

\* the i-th upstream call of q failed: it threw, or it returned nothing the
\* request can go on with (null credentials, an empty tick size)
FailedAt(q, i) ==
    /\ i \in 1..Len(q.answers)
    /\ \/ q.answers[i].threw
       \/ DerivationFailedAt(q, i)
       \/ /\ q.calls[i].op = "getTickSize"
          /\ Falsy(q.answers[i].value) \/ q.answers[i].value = Str(<<>>)

\* C13: within a request each of credential derivation, tick-size lookup and
\* order submission is called at most once, and the first failed call is the
\* last call of the request, which is answered at once.
C13_NoRetry ==
    \A r \in Requests :
        LET q == requests[r] IN
        /\ Cardinality(CallsOf(q, "createOrDeriveApiKey")) <= 1
        /\ Cardinality(CallsOf(q, "getTickSize")) <= 1
        /\ Cardinality(CallsOf(q, "createAndPostOrder")
                       \cup CallsOf(q, "createAndPostMarketOrder")) <= 1
        /\ \A i \in 1..Len(q.answers) :
              FailedAt(q, i) => Len(q.calls) = i /\ Responded(q)

\* one request ended at a tick-size lookup that threw and another at a
\* submission that threw, each without a further call
C13_Witness ==
    \E r1, r2 \in Requests :
        LET q1 == requests[r1]
            q2 == requests[r2]
        IN  /\ Responded(q1) /\ Responded(q2)
            /\ Len(q1.calls) = 2 /\ Len(q1.answers) = 2
            /\ q1.calls[2].op = "getTickSize" /\ q1.answers[2].threw
            /\ Len(q2.calls) = 2 /\ Len(q2.answers) = 2
            /\ q2.calls[2].op = "createAndPostOrder" /\ q2.answers[2].threw
            /\ q1.resp.status = 500 /\ q2.resp.status = 500

-----------------------------------------------------------------------------
(* The requests when every upstream call settles *)

LiveLimitBodies ==
    {[WithPair(LimitBody, KeyA, FunderA) EXCEPT !.tickSize = Undef],
     [LimitBody EXCEPT !.funderAddress = FunderA]}

LiveMarketBodies == {MarketBody}

LiveLegacyBodies == {[LimitBody EXCEPT !.orderType = Str(<<"FOK">>)]}

LiveCfgs == {1}

LiveDerivations == {Returned(Creds1), Returned(Null), Threw(Boom)}

LiveTickSizes == {Returned(Str(<<"0.01">>)), Threw(Status404)}

LiveSubmissions == {Returned(OrderResult), Threw(Boom)}

NextLive ==
    NextOver(LiveLimitBodies, LiveMarketBodies, LiveLegacyBodies,
             LiveCfgs, LiveDerivations, LiveTickSizes, LiveSubmissions)

\* the upstream call request r waits for returns or throws
Settles(r) ==
    \/ \E result \in LiveDerivations : DerivationSettles(r, result)
    \/ \E result \in LiveTickSizes : TickSizeSettles(r, result)
    \/ \E result \in LiveSubmissions : SubmissionSettles(r, result)

\* every upstream call eventually returns or throws; requests arrive or not
\* as the callers please
SpecLive ==
    /\ Init
    /\ [][NextLive]_vars
    /\ \A r \in Requests : WF_vars(Settles(r))

\* C14: when every upstream call eventually returns or throws, every request
\* that has arrived is eventually answered, whatever the other requests did.
C14_EveryRequestAnswered ==
    \A r \in Requests :
        (requests[r].pc # "idle")
        ~> (requests[r].pc = "done" /\ requests[r].resp.status \in {200, 400, 500})

\* a request failed at an upstream call and was answered 500, and a request
\* that arrived after it was served 200
C14_Witness ==
    \E r1, r2 \in Requests :
        /\ r1 < r2
        /\ Responded(requests[r1]) /\ requests[r1].resp.status = 500
        /\ \E i \in 1..Len(requests[r1].answers) : requests[r1].answers[i].threw
        /\ Responded(requests[r2]) /\ requests[r2].resp.status = 200

-----------------------------------------------------------------------------
(* The market route: its field checks and its submission *)

MarketSellBody ==
    [MarketBody EXCEPT !.amount = Num(7), !.side = Str(<<"SELL">>),
                       !.orderType = Str(<<"FAK">>), !.tickSize = Undef]

MarketLimitBodies == {LimitBody}

MarketMarketBodies ==
    {MarketBody,
     MarketSellBody,
     [MarketBody EXCEPT !.tokenID = Undef],
     [MarketBody EXCEPT !.tokenID = Undef, !.amount = Num(0)],
     [MarketBody EXCEPT !.amount = Undef],
     [MarketBody EXCEPT !.amount = Null],
     [MarketBody EXCEPT !.amount = Num(0)],
     [MarketBody EXCEPT !.amount = Num(-1)],
     [MarketBody EXCEPT !.side = Undef],
     [MarketBody EXCEPT !.orderType = Undef],
     [MarketBody EXCEPT !.orderType = Str(<<"GTC">>)]}

MarketLegacyBodies == {LimitBody}

MarketCfgs == {1}

MarketDerivations == {Returned(Creds1), Threw(Boom)}

MarketTickSizes == {Returned(Str(<<"0.001">>)), Threw(Boom)}

MarketSubmissions == {Returned(OrderResult), Threw(Boom)}

NextMarket ==
    NextOver(MarketLimitBodies, MarketMarketBodies, MarketLegacyBodies,
             MarketCfgs, MarketDerivations, MarketTickSizes, MarketSubmissions)

SpecMarket == Init /\ [][NextMarket]_vars

AmountMessage == <<"amount is required and must be greater than 0">>

\* the amount is absent, null or not greater than 0
AmountRefused(amount) == Nullish(amount) \/ (amount.t = "number" /\ amount.n <= 0)

\* C15: a market request is answered 400 without any upstream call when its
\* tokenID is missing, when its amount is absent, null or not greater than 0
\* (with the amount error when the tokenID is given), when its side is
\* missing, or when its orderType is absent or neither FOK nor FAK.
C15_MarketValidation ==
    \A r \in Requests :
        LET q == requests[r] IN
        (q.pc # "idle" /\ q.endpoint = "market")
        => /\ (\/ ~Supplied(q.body.tokenID)
               \/ AmountRefused(q.body.amount)
               \/ ~Supplied(q.body.side)
               \/ ~FokOrFak(q))
              => /\ Responded(q)
                 /\ q.resp.status = 400
                 /\ q.calls = <<>>
           /\ (Supplied(q.body.tokenID) /\ AmountRefused(q.body.amount))
              => q.resp.error = Str(AmountMessage)
           /\ (q.resp.status = 400 /\ q.resp.error = Str(AmountMessage))
              => AmountRefused(q.body.amount)

\* a market request with amount 0 got the amount error and one with order
\* type GTC was refused, neither having called upstream
C15_Witness ==
    \E r1, r2 \in Requests :
        /\ requests[r1].endpoint = "market" /\ requests[r2].endpoint = "market"
        /\ requests[r1].body.amount = Num(0)
        /\ requests[r1].resp.status = 400
        /\ requests[r1].resp.error = Str(AmountMessage)
        /\ requests[r1].calls = <<>>
        /\ requests[r2].body.orderType = Str(<<"GTC">>)
        /\ requests[r2].resp.status = 400
        /\ requests[r2].calls = <<>>

\* the tick size the request goes on with is neither absent nor empty
TickSizeResolved(q) == Truthy(q.tickSize) /\ q.tickSize # Str(<<>>)

\* C20: a market request that passes the handler's checks, acquires its
\* session and resolves its tick size makes exactly one upstream market
\* submission, carrying the request's tokenID, amount, side and FOK/FAK order
\* type, and is answered 200 with the upstream result when that submission
\* returns one.
C20_MarketSubmission ==
    \A r \in Requests :
        LET q == requests[r]
            submitted == CallsOf(q, "createAndPostMarketOrder")
        IN  (/\ q.pc # "idle"
             /\ q.endpoint = "market"
             /\ Validation(q.endpoint, q.body) = <<>>
             /\ Acquired(q)
             /\ TickSizeResolved(q))
            => /\ Cardinality(submitted) = 1
               /\ CallsOf(q, "createAndPostOrder") = {}
               /\ \A j \in submitted :
                     /\ j = Len(q.calls)
                     /\ q.calls[j].args.tokenID = q.body.tokenID
                     /\ q.calls[j].args.amount = q.body.amount
                     /\ q.calls[j].args.side = q.body.side
                     /\ q.calls[j].args.orderType = q.body.orderType
                     /\ FokOrFak(q)
                     /\ IF j \in 1..Len(q.answers)
                        THEN /\ Responded(q)
                             /\ ~q.answers[j].threw
                                => /\ q.resp.status = 200
                                   /\ q.resp.success = Bool(TRUE)
                                   /\ q.resp.data = q.answers[j].value
                        ELSE q.pc = "submit"

\* a SELL/FAK market request without tick size looked it up, submitted once
\* with its own fields and was answered 200 with the venue's result
C20_Witness ==
    \E r \in Requests :
        LET q == requests[r] IN
        /\ q.endpoint = "market"
        /\ q.body = MarketSellBody
        /\ Len(q.calls) = 3 /\ Len(q.answers) = 3
        /\ q.calls[3].op = "createAndPostMarketOrder"
        /\ q.calls[3].args.amount = Num(7)
        /\ q.calls[3].args.side = Str(<<"SELL">>)
        /\ q.calls[3].args.orderType = Str(<<"FAK">>)
        /\ q.resp.status = 200
        /\ q.resp.data = OrderResult

-----------------------------------------------------------------------------
(* The limit route: its field checks, the side mapping and the payload *)

ZeroBody == [LimitBody EXCEPT !.price = Num(0), !.size = Num(0)]

HoldBody == [LimitBody EXCEPT !.side = Str(<<"HOLD">>)]

GtdBody ==
    [LimitBody EXCEPT !.side = Str(<<"SELL">>), !.orderType = Str(<<"GTD">>),
                      !.expiration = Num(1700)]

LimitLimitBodies ==
    {LimitBody, ZeroBody, HoldBody, GtdBody,
     [LimitBody EXCEPT !.tokenID = Undef],
     [LimitBody EXCEPT !.price = Undef],
     [LimitBody EXCEPT !.price = Null],
     [LimitBody EXCEPT !.side = Undef],
     [LimitBody EXCEPT !.size = Undef],
     [LimitBody EXCEPT !.size = Null],
     [LimitBody EXCEPT !.tokenID = Undef, !.price = Undef],
     [LimitBody EXCEPT !.price = Undef, !.side = Undef],
     [LimitBody EXCEPT !.side = Undef, !.size = Undef],
     [LimitBody EXCEPT !.size = Undef, !.privateKey = KeyA]}

LimitMarketBodies == {MarketBody}

LimitLegacyBodies == {[GtdBody EXCEPT !.tickSize = Undef]}

LimitCfgs == {1}

LimitDerivations == {Returned(Creds1)}

LimitTickSizes == {Returned(Str(<<"0.001">>))}

LimitSubmissions == {Returned(OrderResult), Threw(Boom)}

NextLimit ==
    NextOver(LimitLimitBodies, LimitMarketBodies, LimitLegacyBodies,
             LimitCfgs, LimitDerivations, LimitTickSizes, LimitSubmissions)

SpecLimit == Init /\ [][NextLimit]_vars

\* the request was answered 400 with this error before any upstream call
Rejected(q, message) ==
    /\ Responded(q)
    /\ q.resp.status = 400
    /\ q.resp.error = Str(message)
    /\ q.calls = <<>>

\* C16: a limit request is answered 400 with the error naming the first of
\* tokenID (missing), price (null/undefined), side (missing), size
\* (null/undefined) that fails, in that order and before the pairing check; a
\* price or size of 0 passes the presence checks.
C16_LimitValidation ==
    \A r \in Requests :
        LET q == requests[r]
            body == q.body
        IN  (q.pc # "idle" /\ q.endpoint = "limit")
            => /\ ~Supplied(body.tokenID) => Rejected(q, <<"tokenID is required">>)
               /\ (Supplied(body.tokenID) /\ Nullish(body.price))
                  => Rejected(q, <<"price is required">>)
               /\ (Supplied(body.tokenID) /\ ~Nullish(body.price) /\ ~Supplied(body.side))
                  => Rejected(q, <<"side is required (BUY or SELL)">>)
               /\ (/\ Supplied(body.tokenID) /\ ~Nullish(body.price)
                   /\ Supplied(body.side) /\ Nullish(body.size))
                  => Rejected(q, <<"size is required">>)
               /\ (/\ Supplied(body.tokenID) /\ Supplied(body.side)
                   /\ body.price.t = "number" /\ body.size.t = "number"
                   /\ Supplied(body.privateKey) = Supplied(body.funderAddress))
                  => q.resp.status # 400

\* a limit request with price 0 and size 0 was submitted with them, and a
\* request missing price and side was answered 'price is required'
C16_Witness ==
    \E r1, r2 \in Requests :
        LET q1 == requests[r1]
            q2 == requests[r2]
        IN  /\ q1.endpoint = "limit" /\ q2.endpoint = "limit"
            /\ q1.body = ZeroBody
            /\ CallsOf(q1, "createAndPostOrder") # {}
            /\ q1.calls[Len(q1.calls)].args.price = Num(0)
            /\ q1.calls[Len(q1.calls)].args.size = Num(0)
            /\ Nullish(q2.body.price) /\ ~Supplied(q2.body.side)
            /\ Rejected(q2, <<"price is required">>)

\* C17: a request whose side is neither BUY nor SELL is answered 400 and is
\* never submitted upstream, and the side of every submitted order is BUY
\* exactly when the request says BUY and SELL exactly when it says SELL.
C17_SideValidatedAndMapped ==
    \A r \in Requests :
        LET q == requests[r]
            submitted == CallsOf(q, "createAndPostOrder")
                         \cup CallsOf(q, "createAndPostMarketOrder")
        IN  q.pc # "idle"
            => /\ q.body.side \notin {Str(<<"BUY">>), Str(<<"SELL">>)}
                  => /\ submitted = {}
                     /\ Responded(q) /\ q.resp.status = 400
               /\ \A j \in submitted :
                     /\ q.calls[j].args.side = Str(<<"BUY">>) <=> q.body.side = Str(<<"BUY">>)
                     /\ q.calls[j].args.side = Str(<<"SELL">>) <=> q.body.side = Str(<<"SELL">>)

\* C19: the order payload submitted upstream for a limit request of order
\* type GTD carries the expiration the request supplied.
C19_ExpirationCarried ==
    \A r \in Requests :
        LET q == requests[r] IN
        (IsLimit(q) /\ q.body.orderType = Str(<<"GTD">>))
        => \A j \in CallsOf(q, "createAndPostOrder") :
              q.calls[j].args.expiration = q.body.expiration

-----------------------------------------------------------------------------
(* The legacy route beside the limit route *)

\* an upstream error without a message
Silent == UpstreamError(Undef, 0, Undef)

TwinBodies ==
    {[WithPair(LimitBody, KeyA, FunderA) EXCEPT !.tickSize = Undef],
     [LimitBody EXCEPT !.size = Undef],
     [LimitBody EXCEPT !.orderType = Str(<<"FAK">>)]}

TwinLimitBodies == TwinBodies

TwinMarketBodies == {MarketBody}

TwinLegacyBodies == TwinBodies

TwinCfgs == {1}

TwinDerivations == {Returned(Creds1), Threw(Boom)}

TwinTickSizes == {Returned(Str(<<"0.01">>)), Threw(Status404)}

TwinSubmissions == {Returned(OrderResult), Threw(Boom), Threw(Silent)}

NextTwin ==
    NextOver(TwinLimitBodies, TwinMarketBodies, TwinLegacyBodies,
             TwinCfgs, TwinDerivations, TwinTickSizes, TwinSubmissions)

SpecTwin == Init /\ [][NextTwin]_vars

\* the other of the two routes
Twin(endpoint) == IF endpoint = "limit" THEN "legacy" ELSE "limit"

\* the same request had it come in through the other route
Relabel(q) == [q EXCEPT !.endpoint = Twin(q.endpoint)]

\* what a request shows: its upstream calls and their answers, its session,
\* where it stands, and its response apart from the timestamp
Shown(q) == [q EXCEPT !.endpoint = "", !.resp.timestamp = Undef]

\* the two requests show the same
SameShown(a, b) == Shown(a) = Shown(b)

\* the request was answered from a caught error that carries no message
CaughtSilent(q) ==
    /\ Responded(q)
    /\ q.resp.status = 500
    /\ q.answers # <<>>
    /\ q.answers[Len(q.answers)].threw
    /\ Falsy(q.answers[Len(q.answers)].error.message)

\* the two requests show the same, unless both were answered from a caught
\* error without message: then each carries the fallback text of its route
\* and they show the same otherwise
SameApartFromFallback(a, b) ==
    IF CaughtSilent(a) /\ CaughtSilent(b)
    THEN /\ a.resp.error = Str(DefaultMessage(a.endpoint))
         /\ b.resp.error = Str(DefaultMessage(b.endpoint))
         /\ SameShown([a EXCEPT !.resp.error = Undef], [b EXCEPT !.resp.error = Undef])
    ELSE SameShown(a, b)

\* from the present caches, every body handled by POST /limit and by POST /,
\* and every step of a limit or legacy request and of the same request on the
\* other route under the same upstream outcome, leave requests that are the
\* Same and leave the same caches
TwinSteps(Same(_, _)) ==
    /\ \A r \in Requests, body \in TwinBodies, cfg \in TwinCfgs :
          LET a == HandleStep(r, "limit", body, cfg)
              b == HandleStep(r, "legacy", body, cfg)
          IN  Same(a.q, b.q) /\ a.clientCache = b.clientCache
    /\ \A r \in Requests :
          LET q == requests[r]
              t == Relabel(q)
          IN  IsLimit(q)
              => /\ q.pc = "derive"
                    => \A result \in TwinDerivations :
                          LET a == DerivationStep(r, Answered(q, result), result)
                              b == DerivationStep(r, Answered(t, result), result)
                          IN  /\ Same(a.q, b.q)
                              /\ a.clientCache = b.clientCache
                              /\ a.credsCache = b.credsCache
                 /\ q.pc = "tick"
                    => \A result \in TwinTickSizes :
                          Same(TickSizeStep(Answered(q, result), result),
                               TickSizeStep(Answered(t, result), result))
                 /\ q.pc = "submit"
                    => \A result \in TwinSubmissions :
                          Same(SubmissionStep(Answered(q, result), result),
                               SubmissionStep(Answered(t, result), result))

-----------------------------------------------------------------------------
(* The error texts: what each step makes of the error it catches *)

\* an upstream error with status 404 whose message mentions toString
ToString404 == UpstreamError(ToStringError.message, 404, Undef)

ErrorsLimitBodies == {[WithPair(LimitBody, KeyA, FunderA) EXCEPT !.tickSize = Undef]}

ErrorsMarketBodies == {MarketBody}

ErrorsLegacyBodies == {LimitBody}

ErrorsDerivations == {Returned(Creds1), Threw(Boom), Threw(Silent)}

ErrorsTickSizes ==
    {Returned(Str(<<"0.01">>)), Threw(Boom), Threw(Status404), Threw(NotFoundPayload)}

ErrorsSubmissions ==
    {Returned(OrderResult), Threw(Boom), Threw(Status404), Threw(ToStringError),
     Threw(ToString404), Threw(Silent)}

NextErrors ==
    NextOver(ErrorsLimitBodies, ErrorsMarketBodies, ErrorsLegacyBodies,
             RegistryCfgs, ErrorsDerivations, ErrorsTickSizes, ErrorsSubmissions)

SpecErrors == Init /\ [][NextErrors]_vars

\* the request was answered from the error its last upstream call threw
CaughtUpstream(q) ==
    /\ Responded(q)
    /\ q.answers # <<>>
    /\ q.answers[Len(q.answers)].threw

\* the upstream call whose error the request was answered from, and the error
LastOp(q) == q.calls[Len(q.answers)].op

LastError(q) == q.answers[Len(q.answers)].error

IsSubmission(op) == op \in {"createAndPostOrder", "createAndPostMarketOrder"}

MentionsToString(error) ==
    error.message.t = "string" /\ Contains(error.message.s, <<"toString">>)

\* the texts of the two rewritten submission errors
SubmissionNotFoundText(q) ==
    <<"Market not found for tokenID: ">> \o Text(q.body.tokenID)
    \o <<". Please verify the tokenID is correct.">>

InvalidParametersText(error) ==
    <<"Invalid market parameters. Market may not exist or tickSize may be incorrect. Original error: ">>
    \o error.message.s

\* the error of a submission as the caller gets it
SubmissionErrorShown(q, error, otherwise) ==
    IF error.status = 404 THEN Str(SubmissionNotFoundText(q))
    ELSE IF MentionsToString(error) THEN Str(InvalidParametersText(error))
    ELSE otherwise

\* C21: the error returned to the caller is the message of the error that
\* occurred, except at submission, where a 404 becomes the 'Market not found
\* for tokenID' text (first) and a message containing 'toString' becomes the
\* 'Invalid market parameters' text; the errors of every other step pass
\* through unchanged.
C21_MessagePassesThrough ==
    \A r \in Requests :
        LET q == requests[r] IN
        CaughtUpstream(q)
        => q.resp.error =
              IF IsSubmission(LastOp(q))
              THEN SubmissionErrorShown(q, LastError(q), LastError(q).message)
              ELSE LastError(q).message

\* the message of the error, or the text put in its place where it has none
MessageOr(error, text) == IF Falsy(error.message) THEN text ELSE Text(error.message)

\* the text of a failed tick-size lookup: the not-found text for a not-found
\* signal, the message of the error otherwise
LookupErrorText(q, error) ==
    IF NotFoundSignal(error)
    THEN <<"Market not found for tokenID: ">> \o Text(q.body.tokenID)
         \o <<". Please verify the tokenID is correct and the market exists.">>
    ELSE Text(error.message)

\* C21 as the code has it: a submission error is shown as above, with the
\* route's fallback text when it has no message; the error of a credential
\* derivation is shown inside 'Failed to create API key: ...' and the error
\* of a tick-size lookup inside 'Failed to get market info: ...'.
C21_MessageShownPerStep ==
    \A r \in Requests :
        LET q == requests[r]
            error == LastError(q)
        IN  CaughtUpstream(q)
            => /\ q.resp.status = 500
               /\ q.resp.error =
                     CASE IsSubmission(LastOp(q))
                          -> SubmissionErrorShown(q, error,
                                Str(MessageOr(error, DefaultMessage(q.endpoint))))
                       [] LastOp(q) = "createOrDeriveApiKey"
                          -> Str(<<"Failed to create API key: ">>
                                 \o MessageOr(error, <<"Unknown error">>)
                                 \o <<". Please check your privateKey and ensure your wallet is properly configured.">>)
                       [] OTHER
                          -> Str(<<"Failed to get market info: ">>
                                 \o LookupErrorText(q, error)
                                 \o <<". Please provide tickSize manually or use a valid tokenID.">>)

\* one request was answered the not-found text for a submission error that
\* has status 404 and mentions toString, another the wrapped text of a failed
\* derivation
C21_Witness ==
    \E r1, r2 \in Requests :
        LET q1 == requests[r1]
            q2 == requests[r2]
        IN  /\ CaughtUpstream(q1) /\ CaughtUpstream(q2)
            /\ IsSubmission(LastOp(q1))
            /\ LastError(q1) = ToString404
            /\ q1.resp.error = Str(SubmissionNotFoundText(q1))
            /\ LastOp(q2) = "createOrDeriveApiKey"
            /\ LastError(q2) = Boom
            /\ Contains(q2.resp.error.s, <<"boom">>)
            /\ q2.resp.error # Boom.message

\* C26: when the tick-size lookup throws an error that is not a not-found
\* signal, the market resolver throws that same error, not the not-found
\* one, and the request is aborted with it without any order submission.
C26_OtherLookupErrorUnchanged ==
    \A r \in Requests :
        LET q == requests[r] IN
        \A i \in 1..Len(q.answers) :
            (/\ q.calls[i].op = "getTickSize"
             /\ q.answers[i].threw
             /\ ~NotFoundSignal(q.answers[i].error))
            => /\ getMarketInfoCatch(q.body.tokenID, q.answers[i].error) = q.answers[i].error
               /\ Len(q.calls) = i
               /\ Responded(q) /\ q.resp.status = 500
               /\ q.resp.error =
                     Str(<<"Failed to get market info: ">> \o Text(q.answers[i].error.message)
                         \o <<". Please provide tickSize manually or use a valid tokenID.">>)
               /\ ~Contains(q.resp.error.s, <<"Market not found for tokenID: ">>)

\* a request whose tick-size lookup threw 'boom' was answered 500 with that
\* message, having submitted nothing
C26_Witness ==
    \E r \in Requests :
        LET q == requests[r] IN
        /\ CaughtUpstream(q)
        /\ LastOp(q) = "getTickSize"
        /\ LastError(q) = Boom
        /\ Contains(q.resp.error.s, <<"boom">>)
        /\ CallsOf(q, "createAndPostOrder") = {}

\* the upstream calls of q up to the j-th are, in this order, a credential
\* derivation (if any), a tick-size lookup (if any) and the submission j, all
\* before it answered without failing
InStepOrder(q, j) ==
    /\ j = Len(q.calls)
    /\ j <= 3
    /\ \A i \in 1..(j - 1) :
          /\ i \in 1..Len(q.answers)
          /\ ~FailedAt(q, i)
          /\ q.calls[i].op = "createOrDeriveApiKey" => i = 1
          /\ q.calls[i].op = "getTickSize" => i = j - 1
          /\ ~IsSubmission(q.calls[i].op)

\* the steps behind every request: a submission comes after validation, the
\* session and the tick size; a request that failed validation made no call;
\* an answered request has no call pending
StepsInOrder ==
    \A r \in Requests :
        LET q == requests[r] IN
        /\ \A j \in 1..Len(q.calls) :
              IsSubmission(q.calls[j].op)
              => /\ q.resp.status # 400
                 /\ Supplied(q.body.tokenID) /\ Supplied(q.body.side)
                 /\ Supplied(q.body.privateKey) = Supplied(q.body.funderAddress)
                 /\ IsLimit(q) => ~Nullish(q.body.price) /\ ~Nullish(q.body.size)
                 /\ Acquired(q)
                 /\ TickSizeResolved(q)
                 /\ q.calls[j].args.tickSize = q.tickSize
                 /\ InStepOrder(q, j)
        /\ Responded(q) => Len(q.answers) = Len(q.calls)
        /\ ~Responded(q) /\ q.pc # "idle" => Len(q.calls) = Len(q.answers) + 1

\* C22: the steps of a request occur in the order Validate,
\* ResolveCredentials, ResolveMarket (optional), MapEnums, Submit, Respond: a
\* submission happens only after the request passed validation, obtained a
\* session and has a resolved tick size, and nothing happens to a request
\* after its response.
C22_StepOrder ==
    [][/\ StepsInOrder'
       /\ \A r \in Requests :
             Responded(requests[r]) => requests'[r] = requests[r]]_vars

\* a legacy request derived its credentials, looked up its tick size,
\* submitted and was answered, in this order
C22_Witness ==
    \E r \in Requests :
        LET q == requests[r] IN
        /\ Responded(q) /\ q.resp.status = 200
        /\ Len(q.calls) = 3
        /\ q.calls[1].op = "createOrDeriveApiKey"
        /\ q.calls[2].op = "getTickSize"
        /\ q.calls[3].op = "createAndPostOrder"

\* the value is no tick size: absent, or the empty string
NoTickSize(v) == v \in {Undef, Null, Str(<<>>)}

\* C23: every order submitted upstream carries a non-empty tick size; when
\* the request's tick size is absent or the empty string and the lookup
\* throws or yields no non-empty value, the request is answered with an error
\* and submits nothing.
C23_TickSizeNeverEmpty ==
    \A r \in Requests :
        LET q == requests[r]
            submitted == CallsOf(q, "createAndPostOrder")
                         \cup CallsOf(q, "createAndPostMarketOrder")
        IN  /\ \A j \in submitted :
                  /\ q.calls[j].args.tickSize.t = "string"
                  /\ q.calls[j].args.tickSize.s # <<>>
            /\ \A i \in 1..Len(q.answers) :
                  (/\ NoTickSize(q.body.tickSize)
                   /\ q.calls[i].op = "getTickSize"
                   /\ q.answers[i].threw \/ NoTickSize(q.answers[i].value))
                  => /\ submitted = {}
                     /\ Responded(q)
                     /\ q.resp.status = 500
                     /\ q.resp.success = Bool(FALSE)

\* a request that sent the empty string as tick size looked it up, got the
\* empty string and was answered that the tick size could not be determined
C23_Witness ==
    \E r \in Requests :
        LET q == requests[r] IN
        /\ q.body.tickSize = Str(<<>>)
        /\ q.calls # <<>>
        /\ Len(q.answers) = Len(q.calls)
        /\ q.calls[Len(q.calls)].op = "getTickSize"
        /\ q.answers[Len(q.answers)] = Returned(Str(<<>>))
        /\ q.resp.status = 500
        /\ q.resp.error = Str(<<"tickSize is required but could not be determined from market">>)

-----------------------------------------------------------------------------
(* The limit payload: the fields, negRisk and the order type *)

PayloadLimitBodies ==
    {LimitBody,
     [LimitBody EXCEPT !.tokenID = Str(<<"token2">>), !.price = Num(7), !.size = Num(3),
                       !.negRisk = Bool(TRUE), !.orderType = Str(<<"GTD">>)],
     [LimitBody EXCEPT !.negRisk = Bool(FALSE), !.orderType = Str(<<"GTC">>)],
     [LimitBody EXCEPT !.negRisk = Null, !.orderType = Str(<<"XYZ">>)],
     [LimitBody EXCEPT !.orderType = Str(<<>>)],
     [LimitBody EXCEPT !.negRisk = Bool(TRUE), !.orderType = Str(<<"FOK">>)]}

PayloadMarketBodies == {MarketBody}

PayloadLegacyBodies ==
    {[LimitBody EXCEPT !.tickSize = Undef, !.negRisk = Bool(TRUE),
                       !.orderType = Str(<<"GTD">>)]}

NextPayload ==
    NextOver(PayloadLimitBodies, PayloadMarketBodies, PayloadLegacyBodies,
             RegistryCfgs, LimitDerivations, LimitTickSizes, LimitSubmissions)

SpecPayload == Init /\ [][NextPayload]_vars

\* C24: the payload of every upstream limit submission has the tokenID, price
\* and size of the request, and negRisk as the request gives it, false when
\* the request gives none.
C24_LimitPayloadFields ==
    \A r \in Requests :
        LET q == requests[r] IN
        \A j \in CallsOf(q, "createAndPostOrder") :
            /\ q.calls[j].args.tokenID = q.body.tokenID
            /\ q.calls[j].args.price = q.body.price
            /\ q.calls[j].args.size = q.body.size
            /\ q.calls[j].args.negRisk =
                  IF q.body.negRisk \in {Undef, Null} THEN Bool(FALSE) ELSE q.body.negRisk

\* one request submitted with negRisk true as it asked, another with negRisk
\* false having given none
C24_Witness ==
    \E r1, r2 \in Requests :
        LET q1 == requests[r1]
            q2 == requests[r2]
        IN  /\ q1.body.negRisk = Bool(TRUE) /\ q2.body.negRisk = Undef
            /\ CallsOf(q1, "createAndPostOrder") # {}
            /\ CallsOf(q2, "createAndPostOrder") # {}
            /\ q1.calls[Len(q1.calls)].args.negRisk = Bool(TRUE)
            /\ q1.calls[Len(q1.calls)].args.price = Num(7)
            /\ q2.calls[Len(q2.calls)].args.negRisk = Bool(FALSE)

\* C27: every upstream limit submission carries order type GTD when the
\* request's order type is exactly GTD and GTC otherwise (absent, GTC, any
\* other string that reaches submission), and never FOK or FAK.
C27_LimitOrderTypeMapping ==
    \A r \in Requests :
        LET q == requests[r] IN
        \A j \in CallsOf(q, "createAndPostOrder") :
            /\ q.calls[j].args.orderType =
                  IF q.body.orderType = Str(<<"GTD">>) THEN Str(<<"GTD">>)
                  ELSE Str(<<"GTC">>)
            /\ q.calls[j].args.orderType \notin {Str(<<"FOK">>), Str(<<"FAK">>)}
            /\ ~FokOrFak(q)

\* a request of order type XYZ was submitted as GTC and a request of order
\* type GTD as GTD
C27_Witness ==
    \E r1, r2 \in Requests :
        LET q1 == requests[r1]
            q2 == requests[r2]
        IN  /\ q1.body.orderType = Str(<<"XYZ">>)
            /\ q2.body.orderType = Str(<<"GTD">>)
            /\ CallsOf(q1, "createAndPostOrder") # {}
            /\ CallsOf(q2, "createAndPostOrder") # {}
            /\ q1.calls[Len(q1.calls)].args.orderType = Str(<<"GTC">>)
            /\ q2.calls[Len(q2.calls)].args.orderType = Str(<<"GTD">>)

\* the answer to the credential derivation of q, when it has one
DerivationAnswer(q) == q.answers[1]

\* q derived credentials upstream and got some
Derived(q) ==
    /\ q.answers # <<>>
    /\ q.calls[1].op = "createOrDeriveApiKey"
    /\ ~DerivationAnswer(q).threw
    /\ Truthy(DerivationAnswer(q).value)

\* C25: when first-time requests for the same new pair overlap and their
\* derivations succeed, each obtains a session built with the credentials it
\* derived and goes on; the step in which a derivation returns leaves that
\* request's session and credentials in the caches under the pair's key, and
\* the entries of a key change in no step but the return of a derivation for
\* it: the caches hold those of the request whose derivation returned last.
C25_LastDerivationWins ==
    [][/\ \A r \in Requests :
             LET q == requests'[r] IN
             Derived(q)
             => /\ Acquired(q)
                /\ q.client.id = r
                /\ q.client.creds = DerivationAnswer(q).value
                /\ q.pc \in {"tick", "submit", "done"}
                /\ requests[r].pc = "derive"
                   => /\ clientCache'[q.cacheKey] = q.client
                      /\ credsCache'[q.cacheKey] = q.client.creds
       /\ \A k \in DOMAIN clientCache \cup DOMAIN credsCache :
             (\A r \in Requests : ~(requests[r].pc = "derive" /\ requests'[r].pc # "derive"
                                    /\ requests[r].cacheKey = k))
             => /\ k \in DOMAIN clientCache => clientCache'[k] = clientCache[k]
                /\ k \in DOMAIN credsCache => credsCache'[k] = credsCache[k]]_vars

\* two overlapping requests for the same pair derived different credentials,
\* each was served 200 through its own session, and the caches hold one
\* session and one credentials value for the key, those of one of them
C25_Witness ==
    \E r1, r2 \in Requests :
        LET q1 == requests[r1]
            q2 == requests[r2]
        IN  /\ r1 # r2
            /\ SamePair(q1, q2)
            /\ Derived(q1) /\ Derived(q2)
            /\ DerivationAnswer(q1).value = Creds1
            /\ DerivationAnswer(q2).value = Creds2
            /\ q1.client.creds = Creds1 /\ q2.client.creds = Creds2
            /\ q1.resp.status = 200 /\ q2.resp.status = 200
            /\ clientCache[q1.cacheKey] = q2.client
            /\ credsCache[q1.cacheKey] = Creds2

-----------------------------------------------------------------------------
(* The cache key when the fields hold a dash *)

\* funder address "x-y", and the private key "keyA-x": with funder address
\* "y" it gives the cache key of KeyA with "x-y"
DashedFunder == Str(<<"x", "-", "y">>)

DashedKey == Str(KeyA.s \o <<"-", "x">>)

KeysLimitBodies ==
    {WithPair(LimitBody, KeyA, DashedFunder),
     WithPair(LimitBody, DashedKey, Str(<<"y">>)),
     WithPair(LimitBody, KeyA, FunderA)}

KeysMarketBodies == {WithPair(MarketBody, KeyA, DashedFunder)}

KeysLegacyBodies == {[WithPair(LimitBody, DashedKey, Str(<<"y">>)) EXCEPT !.tickSize = Undef]}

NextKeys ==
    NextOver(KeysLimitBodies, KeysMarketBodies, KeysLegacyBodies,
             RegistryCfgs, MarketDerivations, VenueTickSizes, VenueSubmissions)

SpecKeys == Init /\ [][NextKeys]_vars

\* C28: the session a request gets from getInstanceWithCredentials was built
\* from exactly the privateKey and funderAddress it asked for, and requests
\* for distinct pairs never hold the session of one cache entry, whatever
\* strings the two fields are.
C28_SessionOfExactPair ==
    \A r1, r2 \in Requests :
        LET q1 == requests[r1]
            q2 == requests[r2]
        IN  (Acquired(q1) /\ Acquired(q2))
            => /\ q1.client.privateKey = q1.privateKey
               /\ q1.client.funderAddress = q1.funderAddress
               /\ q1.cacheKey = q2.cacheKey => SamePair(q1, q2)

\* C29: in every reachable state every key of the session cache is a key of
\* the credentials cache, and the session cached under a key was built with
\* the credentials now cached under that key.
C29_CachesAgree ==
    \A k \in DOMAIN clientCache :
        /\ k \in DOMAIN credsCache
        /\ clientCache[k].creds = credsCache[k]

\* C30: the credentials cache never maps a key to null/undefined, every
\* cached session was built with credentials that are not null/undefined,
\* and an acquisition that fails leaves both caches as they were.
C30_NoNullCredentialsCached ==
    [][/\ \A k \in DOMAIN credsCache' : Truthy(credsCache'[k])
       /\ \A k \in DOMAIN clientCache' : Truthy(clientCache'[k].creds)
       /\ \A r \in Requests :
             (/\ requests[r].pc \in {"idle", "derive"}
              /\ Responded(requests'[r])
              /\ ~Acquired(requests'[r]))
             => /\ clientCache' = clientCache
                /\ credsCache' = credsCache]_vars

\* request r takes a step
Moves(r) == requests'[r] # requests[r]

\* the cache holds under k after the step what it held before
KeptAt(cache, cacheAfter, k) ==
    IF k \in DOMAIN cache THEN k \in DOMAIN cacheAfter /\ cacheAfter[k] = cache[k]
    ELSE k \notin DOMAIN cacheAfter

\* C31: session acquisition for a pair writes only the entries under the
\* pair's cache key, and no step removes an entry: in every step the key sets
\* of both caches only grow, and the entry of a key changes or appears only
\* in a step of a request that acquires its session for that key.
C31_OnlyOwnKeyWritten ==
    [][/\ DOMAIN clientCache \subseteq DOMAIN clientCache'
       /\ DOMAIN credsCache \subseteq DOMAIN credsCache'
       /\ \A k \in DOMAIN clientCache' \cup DOMAIN credsCache' :
             (\A r \in Requests : Moves(r) => requests'[r].cacheKey # k)
             => /\ KeptAt(clientCache, clientCache', k)
                /\ KeptAt(credsCache, credsCache', k)
       /\ \A r \in Requests :
             Moves(r) => /\ requests[r].pc # "idle" => requests'[r].cacheKey = requests[r].cacheKey
                         /\ requests[r].pc \in {"tick", "submit"}
                            => clientCache' = clientCache /\ credsCache' = credsCache]_vars

\* both caches hold the entries of two keys, each the session and the
\* credentials of the request that acquired its session for that key
C31_Witness ==
    \E r1, r2 \in Requests :
        LET q1 == requests[r1]
            q2 == requests[r2]
        IN  /\ q1.cacheKey # q2.cacheKey
            /\ Acquired(q1) /\ Acquired(q2)
            /\ DOMAIN clientCache = {q1.cacheKey, q2.cacheKey}
            /\ DOMAIN credsCache = {q1.cacheKey, q2.cacheKey}
            /\ clientCache[q1.cacheKey] = q1.client
            /\ clientCache[q2.cacheKey] = q2.client
            /\ credsCache[q1.cacheKey] = q1.client.creds
            /\ credsCache[q2.cacheKey] = q2.client.creds

====
